---- MODULE Spec2Model ----
(***************************************************************************)
(* Model of the books integration pipeline (src/src/integrate_pipeline.py  *)
(* with its helpers utils_isbn.py and utils_goods.py).                      *)
(*                                                                         *)
(* Text is modelled as a sequence of one-character strings, so that        *)
(* strip / lower / split / regex substitution / len are computed, not      *)
(* assumed.  A Python value is a record [t, s]: t is its runtime type and  *)
(* s its text (empty for None, float NaN and pd.NA).                       *)
(***************************************************************************)
EXTENDS Integers, Sequences, FiniteSets, TLC

(***************************************************************************)
(* Characters, in ASCII order.                                             *)
(***************************************************************************)
Chars ==
  << " ", ",", "-", ".",
     "0", "1", "2", "3", "4", "5", "6", "7", "8", "9",
     "A", "B", "C", "D", "E", "F", "G", "H", "I", "J", "K", "L", "M",
     "N", "O", "P", "Q", "R", "S", "T", "U", "V", "W", "X", "Y", "Z",
     "_",
     "a", "b", "c", "d", "e", "f", "g", "h", "i", "j", "k", "l", "m",
     "n", "o", "p", "q", "r", "s", "t", "u", "v", "w", "x", "y", "z",
     "|" >>

CharSet == { Chars[i] : i \in 1..Len(Chars) }

Ord == [ c \in CharSet |-> CHOOSE i \in 1..Len(Chars) : Chars[i] = c ]

Digits == { "0", "1", "2", "3", "4", "5", "6", "7", "8", "9" }

UpperLetters == { Chars[i] : i \in Ord["A"]..Ord["Z"] }

LowerLetters == { Chars[i] : i \in Ord["a"]..Ord["z"] }

Whitespace == { " " }

LowerChar(c) == IF c \in UpperLetters THEN Chars[Ord[c] + (Ord["a"] - Ord["A"])] ELSE c

UpperChar(c) == IF c \in LowerLetters THEN Chars[Ord[c] - (Ord["a"] - Ord["A"])] ELSE c

\* str.lower()
Lower(s) == [ i \in 1..Len(s) |-> LowerChar(s[i]) ]

\* str.upper()
Upper(s) == [ i \in 1..Len(s) |-> UpperChar(s[i]) ]

\* str.strip(): drop leading and trailing whitespace
Strip(s) ==
  LET keep == { i \in 1..Len(s) : s[i] \notin Whitespace }
  IN  IF keep = {} THEN << >>
      ELSE LET lo == CHOOSE i \in keep : \A j \in keep : i <= j
               hi == CHOOSE i \in keep : \A j \in keep : i >= j
           IN  SubSeq(s, lo, hi)

IsDigitChar(c) == c \in Digits

\* re.sub(r'[^0-9]', '', s)
OnlyDigits(s) == SelectSeq(s, IsDigitChar)

\* str.isdigit() on the alphabet of the model
IsDigitStr(s) == Len(s) > 0 /\ \A i \in 1..Len(s) : s[i] \in Digits

\* s.split(sep)[0]
FirstToken(s, sep) ==
  LET hits == { i \in 1..Len(s) : s[i] = sep }
  IN  IF hits = {} THEN s
      ELSE SubSeq(s, 1, (CHOOSE i \in hits : \A j \in hits : i <= j) - 1)

\* Python's < on str: lexicographic by code point
RECURSIVE StrLess(_, _)
StrLess(a, b) ==
  IF b = << >> THEN FALSE
  ELSE IF a = << >> THEN TRUE
  ELSE IF Ord[Head(a)] # Ord[Head(b)] THEN Ord[Head(a)] < Ord[Head(b)]
  ELSE StrLess(Tail(a), Tail(b))

(***************************************************************************)
(* Python values.                                                          *)
(***************************************************************************)
PyNone == [t |-> "none", s |-> << >>]

\* float('nan'): what pandas holds for a missing CSV cell or a missing JSON key
PyNaN == [t |-> "nan", s |-> << >>]

\* pd.NA
PdNA == [t |-> "NA", s |-> << >>]

Str(s) == [t |-> "str", s |-> s]

\* an int whose decimal digits are s
PyInt(s) == [t |-> "int", s |-> s]

\* a float whose repr is s
PyFloat(s) == [t |-> "float", s |-> s]

\* True / False
PyBool(b) ==
  [t |-> "bool", s |-> IF b THEN << "T", "r", "u", "e" >> ELSE << "F", "a", "l", "s", "e" >>]

\* an exception propagating out of a call
Raised == [t |-> "raise", s |-> << >>]

\* bool(v)
Truthy(v) ==
  CASE v.t = "none" -> FALSE
    [] v.t = "nan" -> TRUE
    [] v.t = "str" -> v.s # << >>
    [] v.t \in {"int", "float"} -> \E i \in 1..Len(v.s) : v.s[i] \in Digits \ {"0"}
    [] OTHER -> TRUE

\* str(v)
PyStr(v) ==
  CASE v.t = "none" -> << "N", "o", "n", "e" >>
    [] v.t = "nan" -> << "n", "a", "n" >>
    [] v.t = "NA" -> << "N", "A" >>
    [] OTHER -> v.s

\* pd.isna(v) / Series.isna()
IsNA(v) == v.t \in {"none", "nan", "NA"}

(***************************************************************************)
(* utils_isbn                                                              *)
(***************************************************************************)
ISBN13_LEN == 13

ISBN10_LEN == 10

NullWords ==
  { << "n", "o", "n", "e" >>, << "n", "u", "l", "l" >>, << "n", "a", "n" >>,
    << "m", "i", "s", "s", "i", "n", "g" >> }

clean_isbn_len13only(isbn_raw) ==
  IF ~Truthy(isbn_raw) THEN PyNone
  ELSE LET s == Strip(PyStr(isbn_raw))
       IN  IF Lower(s) \in NullWords THEN PyNone
           ELSE LET digits == OnlyDigits(s)
                IN  IF Len(digits) = ISBN13_LEN THEN Str(digits) ELSE PyNone

clean_isbn(isbn_raw) ==
  IF ~Truthy(isbn_raw) THEN PyNone
  ELSE LET s == Strip(PyStr(isbn_raw))
       IN  IF Lower(s) \in NullWords THEN PyNone
           ELSE LET digits == OnlyDigits(s)
                IN  IF Len(digits) = ISBN13_LEN \/ Len(digits) = ISBN10_LEN
                    THEN Str(digits)
                    ELSE PyNone

is_isbn13(value) ==
  Truthy(value) /\ Len(value.s) = ISBN13_LEN /\ IsDigitStr(value.s)

\* Python's  a or b
PyOr(a, b) == IF Truthy(a) THEN a ELSE b

(***************************************************************************)
(* utils_goods                                                             *)
(***************************************************************************)
VALID_LANGUAGES ==
  { << "e", "n" >>, << "e", "s" >>, << "f", "r" >>,
    << "p", "t", "-", "b", "r" >>, << "d", "e" >>, << "i", "t" >> }

VALID_CURRENCIES ==
  { << "U", "S", "D" >>, << "E", "U", "R" >>, << "G", "B", "P" >>,
    << "C", "A", "D" >>, << "J", "P", "Y" >>, << "A", "U", "D" >> }

DigitVal(c) == Ord[c] - Ord["0"]

RECURSIVE ToNat(_)
ToNat(s) == IF s = << >> THEN 0 ELSE 10 * ToNat(SubSeq(s, 1, Len(s) - 1)) + DigitVal(s[Len(s)])

DaysInMonth(m) == IF m = 2 THEN 28 ELSE IF m \in {4, 6, 9, 11} THEN 30 ELSE 31

\* pd.NaT
NaT == [y |-> 0, m |-> 0, d |-> 0]

\* pd.to_datetime(date_str, errors='coerce') on the ISO forms YYYY, YYYY-MM and
\* YYYY-MM-DD: the parsed [y, m, d], or NaT for anything else (1678 and 2261
\* are the first and last years wholly inside the Timestamp range)
ToDatetime(s) ==
  LET isY == Len(s) = 4 /\ IsDigitStr(s)
      isYM == Len(s) = 7 /\ IsDigitStr(SubSeq(s, 1, 4)) /\ s[5] = "-"
              /\ IsDigitStr(SubSeq(s, 6, 7))
      isYMD == Len(s) = 10 /\ IsDigitStr(SubSeq(s, 1, 4)) /\ s[5] = "-"
               /\ IsDigitStr(SubSeq(s, 6, 7)) /\ s[8] = "-" /\ IsDigitStr(SubSeq(s, 9, 10))
      y == ToNat(SubSeq(s, 1, 4))
      m == IF isY THEN 1 ELSE ToNat(SubSeq(s, 6, 7))
      d == IF isYMD THEN ToNat(SubSeq(s, 9, 10)) ELSE 1
  IN  IF (isY \/ isYM \/ isYMD)
         /\ y >= 1678 /\ y <= 2261
         /\ m >= 1 /\ m <= 12 /\ d >= 1 /\ d <= DaysInMonth(m)
      THEN [y |-> y, m |-> m, d |-> d]
      ELSE NaT

TwoDigits(n) == << Chars[Ord["0"] + (n \div 10)], Chars[Ord["0"] + (n % 10)] >>

FourDigits(n) == TwoDigits(n \div 100) \o TwoDigits(n % 100)

\* Timestamp.strftime('%Y-%m-%d')
Strftime(ts) == FourDigits(ts.y) \o << "-" >> \o TwoDigits(ts.m) \o << "-" >> \o TwoDigits(ts.d)

normalize_date(date_raw) ==
  IF ~Truthy(date_raw) THEN PyNone
  ELSE LET date_str == Strip(PyStr(date_raw))
           date_obj == ToDatetime(date_str)
       IN  IF date_obj = NaT
           THEN IF Len(date_str) = 4 /\ IsDigitStr(date_str) THEN Str(date_str) ELSE PyNone
           ELSE Str(Strftime(date_obj))

normalize_language(lang_raw) ==
  IF ~Truthy(lang_raw) THEN PyNone
  ELSE IF lang_raw.t # "str" THEN Raised
  ELSE LET lang == Lower(Strip(lang_raw.s))
       IN  IF lang \in VALID_LANGUAGES THEN Str(lang)
           ELSE IF lang = << "e", "n", "g" >> THEN Str(<< "e", "n" >>)
           ELSE IF lang = << "s", "p", "a" >> THEN Str(<< "e", "s" >>)
           ELSE PyNone

check_currency(currency_code) ==
  IF IsNA(currency_code) THEN FALSE
  ELSE LET code_str == Strip(PyStr(currency_code))
       IN  IF Lower(code_str) \in { << "n", "a", "n" >>, << "n", "o", "n", "e" >>, << >> }
           THEN FALSE
           ELSE Upper(code_str) \in VALID_CURRENCIES

(***************************************************************************)
(* The interpreter's str hash.  CPython keys it with a secret drawn at     *)
(* process start (PYTHONHASHSEED unset), so it is a function of the text   *)
(* and of the process' seed; the model keeps HashBits bits of it.          *)
(***************************************************************************)
HashBits == 12

HashMod == 2 ^ HashBits

RECURSIVE HashMix(_, _)
HashMix(s, h) ==
  IF s = << >> THEN h ELSE HashMix(Tail(s), (h * 33 + Ord[Head(s)]) % HashMod)

\* hash(s) in a process whose secret is seed: a signed HashBits-bit integer
PyHash(s, seed) ==
  LET h == HashMix(s, (seed * 977 + 5381) % HashMod)
  IN  IF h >= HashMod \div 2 THEN h - HashMod ELSE h

RECURSIVE NatToStr(_)
NatToStr(n) ==
  IF n < 10 THEN << Chars[Ord["0"] + n] >>
  ELSE NatToStr(n \div 10) \o << Chars[Ord["0"] + (n % 10)] >>

\* str(n) for an int n
IntToStr(n) == IF n < 0 THEN << "-" >> \o NatToStr(0 - n) ELSE NatToStr(n)

(***************************************************************************)
(* Ingestion: what load_data makes of the two landing files.               *)
(***************************************************************************)
\* the columns of googlebooks_books.csv the pipeline reads
CsvColumns ==
  { "title", "authors", "publisher", "pub_date", "language", "categories",
    "isbn13", "isbn10", "price_amount", "price_currency",
    "goodreads_title", "goodreads_isbn10", "goodreads_isbn13" }

\* cells pd.read_csv takes for a missing value (its default na_values)
CsvNaWords ==
  { << >>, << "n", "a", "n" >>, << "N", "a", "N" >>, << "n", "u", "l", "l" >>,
    << "N", "U", "L", "L" >>, << "N", "o", "n", "e" >>, << "N", "A" >> }

IsIntCell(c) == IsDigitStr(c)

IsFloatCell(c) ==
  \E k \in 2..(Len(c) - 1) :
    c[k] = "." /\ IsDigitStr(SubSeq(c, 1, k - 1)) /\ IsDigitStr(SubSeq(c, k + 1, Len(c)))

\* the decimal text of int(c): leading zeros are gone
RECURSIVE StripZeros(_)
StripZeros(c) == IF Len(c) > 1 /\ Head(c) = "0" THEN StripZeros(Tail(c)) ELSE c

\* the dtype read_csv infers for a column from all of its cells
ColumnKind(cells) ==
  LET present == { c \in cells : c \notin CsvNaWords }
  IN  IF \A c \in present : IsIntCell(c)
      THEN IF present = {} \/ cells # present THEN "float64" ELSE "int64"
      ELSE IF \A c \in present : IsIntCell(c) \/ IsFloatCell(c) THEN "float64"
      ELSE "object"

CellValue(kind, c) ==
  IF c \in CsvNaWords THEN PyNaN
  ELSE CASE kind = "int64" -> PyInt(StripZeros(c))
         [] kind = "float64" ->
              PyFloat(IF IsIntCell(c) THEN StripZeros(c) \o << ".", "0" >> ELSE c)
         [] OTHER -> Str(c)

\* pd.read_csv(GOOGLEBOOKS_CSV): lines is the sequence of the file's data lines,
\* each a function from column name to cell text
read_csv(lines) ==
  [ i \in 1..Len(lines) |->
      [ col \in CsvColumns |->
          CellValue(ColumnKind({ lines[k][col] : k \in 1..Len(lines) }), lines[i][col]) ] ]

\* pd.json_normalize(gr_data['books']): JSON strings and nulls are kept as they are
json_normalize(books) == books

\* an emptiness test that never reports an empty frame
EmptyNever(df) == FALSE

\* DataFrame.empty
Empty(df) == Len(df) = 0

\* row.get(name)
Get(row, name) == IF name \in DOMAIN row THEN row[name] ELSE PyNone

\* Series.fillna(value) on one cell
FillNa(v, value) == IF IsNA(v) THEN value ELSE v

(***************************************************************************)
(* map_and_normalize                                                       *)
(***************************************************************************)
MISSING_TITLE ==
  << "_", "_", "M", "I", "S", "S", "I", "N", "G", "_", "T", "I", "T", "L", "E", "_", "_" >>

MISSING_AUTHOR ==
  << "_", "_", "M", "I", "S", "S", "I", "N", "G", "_", "A", "U", "T", "H", "O", "R", "_", "_" >>

\* the rename and the per-source column definitions (lines 218-246); astype(str)
\* is that of an object column (pandas 1.x / 2.x): None gives 'None' and NaN
\* gives 'nan', the texts clean_isbn and check_currency guard against
SourceColumns(row, source) ==
  IF source = "goodreads"
  THEN [ title_raw |-> row.title,
         authors_raw |-> Str(Strip(PyStr(row.author))),
         title_normalized |-> Str(Lower(Strip(PyStr(row.title)))),
         language_raw |-> PyNone, publishedDate_raw |-> PyNone,
         price_amount |-> PyNone, price_currency |-> PyNone,
         publisher |-> PyNone, categories_raw |-> PyNone, pageCount |-> PyNone,
         isbn13 |-> row.isbn13, isbn10 |-> row.isbn10 ]
  ELSE [ title_raw |-> row.goodreads_title,
         title_raw_gb |-> row.title,
         authors_raw |-> Str(Strip(PyStr(row.authors))),
         title_normalized |-> Str(Lower(Strip(PyStr(row.goodreads_title)))),
         language_raw |-> row.language, publishedDate_raw |-> row.pub_date,
         price_amount |-> row.price_amount, price_currency |-> row.price_currency,
         publisher |-> row.publisher, categories_raw |-> row.categories,
         pageCount |-> PyNone,
         isbn13 |-> row.isbn13, isbn10 |-> row.isbn10,
         goodreads_isbn13 |-> row.goodreads_isbn13,
         goodreads_isbn10 |-> row.goodreads_isbn10 ]

\* lines 267-271
fallback_key(title_normalized, authors_raw) ==
  FillNa(title_normalized, Str(MISSING_TITLE)).s
    \o << "|" >>
    \o FillNa(Str(FirstToken(authors_raw.s, ",")), Str(MISSING_AUTHOR)).s

\* a book_id that is left missing when there is no ISBN-13
book_id_of_isbn_only(isbn13_clean, key, seed) ==
  IF is_isbn13(isbn13_clean) THEN isbn13_clean ELSE PdNA

\* a book_id that is always the hash of the fallback key
book_id_of_hash_only(isbn13_clean, key, seed) == Str(IntToStr(PyHash(key, seed)))

\* lines 266-275: the ISBN-13 when it is one, else the hash of the fallback key
book_id_of(isbn13_clean, key, seed) ==
  LET id == IF is_isbn13(isbn13_clean) THEN isbn13_clean ELSE PdNA
  IN  IF ~IsNA(id) THEN id ELSE Str(IntToStr(PyHash(key, seed)))

\* lines 260-262: the raw currency value where check_currency accepts it
moneda_iso_of(price_currency) ==
  IF check_currency(price_currency) THEN price_currency ELSE PdNA

\* a price that is kept only next to an accepted currency
precio_gated(c) == IF check_currency(c.price_currency) THEN c.price_amount ELSE PdNA

\* line 263: the price column is the raw amount column
precio_of(c) == c.price_amount

\* str(v)[:4]
First4(v) == LET s == PyStr(v) IN SubSeq(s, 1, IF Len(s) < 4 THEN Len(s) ELSE 4)

\* one row of map_and_normalize(df, source), in a process whose hash secret is
\* seed, at time ts
NormalizeRow(row, source, seed, ts) ==
  LET c == SourceColumns(row, source)
      isbn13_clean == PyOr(clean_isbn(Get(c, "isbn13")), clean_isbn(Get(c, "goodreads_isbn13")))
      isbn10_clean == PyOr(clean_isbn(Get(c, "isbn10")), clean_isbn(Get(c, "goodreads_isbn10")))
      fecha == normalize_date(c.publishedDate_raw)
      key == fallback_key(c.title_normalized, c.authors_raw)
      derived ==
        [ source_name |-> source,
          timestamp_ingesta |-> ts,
          isbn13_clean |-> isbn13_clean,
          isbn10_clean |-> isbn10_clean,
          fecha_publicacion |-> fecha,
          idioma_bcp47 |-> normalize_language(c.language_raw),
          moneda_iso |-> moneda_iso_of(c.price_currency),
          precio |-> precio_of(c),
          book_id |-> book_id_of(isbn13_clean, key, seed),
          fallback_key |-> Str(key),
          anio_publicacion |-> Str(First4(fecha)) ]
  IN  [ f \in (DOMAIN c) \cup (DOMAIN derived) |->
          IF f \in DOMAIN derived THEN derived[f] ELSE c[f] ]

\* an exception leaves map_and_normalize: normalize_language calls .strip() on
\* a value that is not a str
NormalizeRaises(df, source) ==
  \E i \in 1..Len(df) :
    normalize_language(SourceColumns(df[i], source).language_raw) = Raised

map_and_normalize(df, source, seed, ts) ==
  [ i \in 1..Len(df) |-> NormalizeRow(df[i], source, seed, ts) ]

(***************************************************************************)
(* standardize_and_merge                                                   *)
(***************************************************************************)
\* pd.concat([a, b], ignore_index=True): the union of the columns, NaN where a
\* frame lacks one
concat(a, b) ==
  LET rows == a \o b
      cols == UNION { DOMAIN rows[i] : i \in 1..Len(rows) }
  IN  [ i \in 1..Len(rows) |->
          [ f \in cols |-> IF f \in DOMAIN rows[i] THEN rows[i][f] ELSE PyNaN ] ]

KEY_COLS == { "book_id", "title_normalized", "isbn13_clean", "authors_raw" }

NanPct == [nan |-> TRUE, bp |-> 0]

\* round((count / total_rows) * 100, 2) in hundredths of a percent; numpy's
\* division by zero gives nan and does not raise
Pct(count, total_rows) ==
  IF total_rows = 0 THEN NanPct
  ELSE [nan |-> FALSE, bp |-> (count * 20000 + total_rows) \div (2 * total_rows)]

ZeroPct == [nan |-> FALSE, bp |-> 0]

NotNaCount(df, col) == Cardinality({ i \in 1..Len(df) : ~IsNA(df[i][col]) })

calculate_quality_metrics(df, source_name, key_columns, ts) ==
  LET total_rows == Len(df)
  IN  [ source |-> source_name,
        timestamp |-> ts,
        total_rows |-> total_rows,
        null_counts |-> [ col \in key_columns |-> total_rows - NotNaCount(df, col) ],
        completeness_pct |-> [ col \in key_columns |-> Pct(NotNaCount(df, col), total_rows) ],
        pct_valid_languages_bcp47 |->
          IF total_rows # 0 THEN Pct(NotNaCount(df, "idioma_bcp47"), total_rows) ELSE ZeroPct,
        pct_valid_currencies_iso4217 |->
          IF total_rows # 0 THEN Pct(NotNaCount(df, "moneda_iso"), total_rows) ELSE ZeroPct ]

(***************************************************************************)
(* deduplicate_and_create_dims                                             *)
(***************************************************************************)
GOOGLE_RANK == 1

OTHER_RANK == 2

\* a rank that puts the scrape source first
source_rank_swapped(source_name) ==
  IF source_name = "googlebooks" THEN OTHER_RANK ELSE GOOGLE_RANK

source_rank(source_name) == IF source_name = "googlebooks" THEN GOOGLE_RANK ELSE OTHER_RANK

\* lines 305-307: the three sort helpers, added to df_unified itself
WithSortColumns(df) ==
  [ i \in 1..Len(df) |->
      [ f \in (DOMAIN df[i]) \cup {"source_rank", "title_length", "fecha_sort"} |->
          CASE f = "source_rank" -> source_rank(df[i].source_name)
            [] f = "title_length" -> Len(PyStr(df[i].title_raw))
            [] f = "fecha_sort" -> FillNa(df[i].fecha_publicacion,
                                          Str(<< "0", "0", "0", "0", "-", "0", "0", "-", "0", "0" >>))
            [] OTHER -> df[i][f] ] ]

\* an order that puts the oldest date of a tie first
SortsBeforeOldestFirst(a, b) ==
  IF a.book_id.s # b.book_id.s THEN StrLess(a.book_id.s, b.book_id.s)
  ELSE IF a.source_rank # b.source_rank THEN a.source_rank < b.source_rank
  ELSE IF a.title_length # b.title_length THEN a.title_length > b.title_length
  ELSE IF a.fecha_sort.s # b.fecha_sort.s THEN StrLess(a.fecha_sort.s, b.fecha_sort.s)
  ELSE FALSE

\* row a sorts strictly before row b under
\* by=[book_id, source_rank, title_length, fecha_sort], ascending=[T, T, F, F]
SortsBefore(a, b) ==
  IF a.book_id.s # b.book_id.s THEN StrLess(a.book_id.s, b.book_id.s)
  ELSE IF a.source_rank # b.source_rank THEN a.source_rank < b.source_rank
  ELSE IF a.title_length # b.title_length THEN a.title_length > b.title_length
  ELSE IF a.fecha_sort.s # b.fecha_sort.s THEN StrLess(b.fecha_sort.s, a.fecha_sort.s)
  ELSE FALSE

\* put index i into the sorted index list, after every entry it does not precede
RECURSIVE InsertSorted(_, _, _)
InsertSorted(df, order, i) ==
  IF order = << >> THEN << i >>
  ELSE IF SortsBefore(df[i], df[Head(order)]) THEN << i >> \o order
  ELSE << Head(order) >> \o InsertSorted(df, Tail(order), i)

RECURSIVE SortOrderUpTo(_, _)
SortOrderUpTo(df, n) ==
  IF n = 0 THEN << >> ELSE InsertSorted(df, SortOrderUpTo(df, n - 1), n)

\* DataFrame.sort_values on several keys is a stable sort: the row indices of
\* df in sorted order
sort_values(df) == SortOrderUpTo(df, Len(df))

\* no deduplication: every sorted row is kept
drop_duplicates_none(df, order) == order

\* drop_duplicates(subset=['book_id'], keep='first') over the sorted indices
drop_duplicates(df, order) ==
  SelectSeq(order,
            LAMBDA i : \A k \in 1..Len(order) :
                         (order[k] # i /\ df[order[k]].book_id = df[i].book_id)
                           => \E m \in 1..Len(order) : order[m] = i /\ m < k)

\* lines 309-316: df_winners
Winners(df, ts) ==
  LET order == drop_duplicates(df, sort_values(df))
  IN  [ k \in 1..Len(order) |->
          [ f \in (DOMAIN df[order[k]]) \cup {"fuente_ganadora", "ts_ultima_actualizacion"} |->
              CASE f = "fuente_ganadora" -> df[order[k]].source_name
                [] f = "ts_ultima_actualizacion" -> ts
                [] OTHER -> df[order[k]][f] ] ]

\* a source detail that keeps the winning rows only
SourceDetailWinnersOnly(df, df_winners) ==
  [ k \in 1..Len(df_winners) |->
      [ f \in (DOMAIN df[1]) \cup {"is_winner"} |->
          IF f = "is_winner" THEN TRUE ELSE df_winners[k][f] ] ]

\* lines 320-322: df_source_detail
SourceDetail(df, df_winners) ==
  LET winner_ids == { df_winners[k].book_id : k \in 1..Len(df_winners) }
  IN  [ i \in 1..Len(df) |->
          [ f \in (DOMAIN df[i]) \cup {"is_winner"} |->
              IF f = "is_winner" THEN df[i].book_id \in winner_ids ELSE df[i][f] ] ]

CANONICAL_COLUMNS ==
  << "book_id", "title", "title_normalized", "author_principal", "authors",
     "editorial", "anio_publicacion", "fecha_publicacion", "idioma",
     "isbn10", "isbn13", "paginas", "formato", "categoria",
     "precio", "moneda", "fuente_ganadora", "ts_ultima_actualizacion" >>

CanonicalSet == { CANONICAL_COLUMNS[i] : i \in 1..Len(CANONICAL_COLUMNS) }

\* canonical name -> column of df_winners it is renamed from (mapping_dict)
mapping_dict ==
  [ title |-> "title_raw", authors |-> "authors_raw", idioma |-> "idioma_bcp47",
    isbn13 |-> "isbn13_clean", isbn10 |-> "isbn10_clean", precio |-> "precio",
    moneda |-> "moneda_iso", editorial |-> "publisher", categoria |-> "categories_raw",
    paginas |-> "pageCount", book_id |-> "book_id",
    title_normalized |-> "title_normalized", fuente_ganadora |-> "fuente_ganadora",
    ts_ultima_actualizacion |-> "ts_ultima_actualizacion",
    fecha_publicacion |-> "fecha_publicacion", anio_publicacion |-> "anio_publicacion" ]

\* lines 350-361: df_dim_book
DimBook(df_winners) ==
  [ k \in 1..Len(df_winners) |->
      [ col \in CanonicalSet |->
          CASE col = "author_principal" ->
                 Str(Strip(FirstToken(PyStr(df_winners[k].authors_raw), ",")))
            [] col = "formato" -> PdNA
            [] col \in DOMAIN mapping_dict /\ mapping_dict[col] \in DOMAIN df_winners[k] ->
                 df_winners[k][mapping_dict[col]]
            [] OTHER -> PdNA ] ]

\* generate_schema_markdown: per canonical column, whether it is nullable and
\* its first non-null value
SchemaOf(df_dim_book, ts) ==
  [ generated |-> ts,
    columns |->
      [ col \in CanonicalSet |->
          LET present == { k \in 1..Len(df_dim_book) :
                             ~(col \notin {"fuente_ganadora", "ts_ultima_actualizacion"}
                               /\ IsNA(df_dim_book[k][col])) }
          IN  [ nullable |-> present # 1..Len(df_dim_book),
                example |-> IF present = {} THEN 0
                            ELSE CHOOSE k \in present : \A j \in present : k <= j ] ] ]

(***************************************************************************)
(* Files.                                                                  *)
(***************************************************************************)
NoFile == [exists |-> FALSE, rows |-> << >>]

File(rows) == [exists |-> TRUE, rows |-> rows]

\* a write that adds the frame to the rows the file already holds
to_parquet_append(old, df) == File(old.rows \o df)

\* df.to_parquet(path, index=False): the file holds the frame, whatever it
\* held before
to_parquet(old, df) == File(df)

\* open(path, 'w') followed by the dump or write of the content: the file is
\* truncated first
write_text(old, content) == File(content)

\* a landing file that cannot be read or parsed
Unreadable == [readable |-> FALSE, rows |-> << >>]

Readable(rows) == [readable |-> TRUE, rows |-> rows]

\* load_data: an exception while reading a source leaves an empty DataFrame
load_data(files) ==
  [ goodreads |-> IF files.goodreads.readable
                  THEN json_normalize(files.goodreads.rows) ELSE << >>,
    googlebooks |-> IF files.googlebooks.readable
                    THEN read_csv(files.googlebooks.rows) ELSE << >> ]

(***************************************************************************)
(* The landing files the runs are given.                                   *)
(***************************************************************************)
T_DUNE == << "D", "u", "n", "e" >>

T_DUNE_PAD == << " ", "D", "U", "N", "E", " " >>

T_SAGA == << "D", "u", "n", "e", " ", "S", "a", "g", "a" >>

T_AB == << "a", "|", "b" >>

T_A == << "a" >>

A_HERBERT == << "H", "e", "r", "b", "e", "r", "t" >>

A_HERBERT_F == << "H", "e", "r", "b", "e", "r", "t", ",", " ", "F" >>

A_C == << "c" >>

A_BC == << "b", "|", "c" >>

ISBN_X == << "9", "7", "8", "0", "1", "3", "4", "6", "8", "5", "9", "9", "1" >>

ISBN_X_HYPHENS ==
  << "9", "7", "8", "-", "0", "-", "1", "3", "-", "4", "6", "8", "5", "9", "9", "-", "1" >>

ISBN_Y10 == << "0", "1", "3", "4", "6", "8", "5", "9", "9", "7" >>

ISBN_Z10 == << "1", "2", "3", "4", "5", "6", "7", "8", "9", "0" >>

GrBook(title, author, isbn13, isbn10) ==
  [ title |-> title, author |-> author, isbn13 |-> isbn13, isbn10 |-> isbn10 ]

\* the records of goodreads_books.json: JSON strings and nulls
GrBooks ==
  { GrBook(Str(T_SAGA), Str(A_HERBERT), Str(ISBN_X_HYPHENS), PyNone),
    GrBook(Str(T_DUNE), Str(A_HERBERT_F), PyNone, Str(ISBN_Y10)),
    GrBook(Str(T_DUNE_PAD), Str(A_HERBERT), PyNone, PyNone),
    GrBook(Str(T_AB), Str(A_C), Str(ISBN_Z10), PyNone),
    GrBook(PyNone, PyNone, PyNone, PyNone),
    GrBook(Str(T_A), Str(A_BC), PyNone, PyNone) }

GbLine(gr_title, authors, pub_date, language, isbn13, isbn10, gr_isbn13, amount, currency) ==
  [ title |-> << "G", "B" >>, authors |-> authors,
    publisher |-> << "T", "P" >>, pub_date |-> pub_date, language |-> language,
    categories |-> << >>, isbn13 |-> isbn13, isbn10 |-> isbn10,
    price_amount |-> amount, price_currency |-> currency,
    goodreads_title |-> gr_title, goodreads_isbn10 |-> << >>,
    goodreads_isbn13 |-> gr_isbn13 ]

\* the data lines of googlebooks_books.csv: cell texts, << >> an empty cell
GbLines ==
  { GbLine(T_DUNE, A_HERBERT, << "2", "0", "2", "0" >>, << "e", "n" >>,
           ISBN_X, ISBN_Y10, << >>, << "9", ".", "5" >>, << "U", "S", "D" >>),
    GbLine(T_DUNE, A_HERBERT_F, << "2", "0", "2", "3", "-", "0", "5", "-", "0", "1" >>,
           << "E", "S" >>, << >>, << >>, ISBN_X_HYPHENS, << >>, << "u", "s", "d" >>),
    GbLine(T_DUNE, A_BC, << >>, << "e", "n", "g" >>,
           ISBN_X_HYPHENS, << >>, << >>, << "1", "2" >>, << "X", "X", "X" >>),
    GbLine(T_DUNE, A_HERBERT, << "2", "0", "2", "1", "-", "0", "2" >>, << "f", "r" >>,
           << >>, << >>, << >>, << >>, << >>),
    GbLine(T_A, A_BC, << "1", "9", "9", "9" >>, << >>,
           << >>, << >>, << >>, << >>, << >>),
    GbLine(<< >>, << >>, << "x" >>, << "e", "n" >>,
           ISBN_X, ISBN_X, << >>, << >>, << >>),
    GbLine(T_A, A_C, << >>, << "e", "n" >>,
           ISBN_X_HYPHENS, << >>, << >>, << "7" >>, << >>) }

\* the most rows the two landing files hold together
MaxRows == 3

SeqsUpTo(S, n) == UNION { [1..k -> S] : k \in 0..n }

LandingFiles ==
  { f \in [ goodreads : { Readable(r) : r \in SeqsUpTo(GrBooks, MaxRows) } \cup {Unreadable},
            googlebooks : { Readable(r) : r \in SeqsUpTo(GbLines, MaxRows) } \cup {Unreadable} ] :
      Len(f.goodreads.rows) + Len(f.googlebooks.rows) <= MaxRows }

\* the secrets a process may draw for its str hash
HashSeeds == {0, 1}

(***************************************************************************)
(* State.                                                                  *)
(***************************************************************************)
VARIABLES
  landing,          \* the two input files under landing/
  disk,             \* the four output files under standard/
  pc,               \* where main() is
  run,              \* the number of the run; also the clock of its timestamps
  seed,             \* the str-hash secret of the running process
  raw_data,         \* main's raw_data
  df_unified,       \* main's df_unified
  quality_metrics,  \* main's quality_metrics
  results,          \* main's results['dim_book']
  call              \* a single call of a field-level function: its argument and result

vars == << landing, disk, pc, run, seed, raw_data, df_unified, quality_metrics, results, call >>

NoCall == [fn |-> "none", arg |-> PyNone, ret |-> PyNone, done |-> FALSE]

NoDisk ==
  [ book_source_detail |-> NoFile, dim_book |-> NoFile,
    quality_metrics_json |-> NoFile, schema_md |-> NoFile ]

NoRawData == [goodreads |-> << >>, googlebooks |-> << >>]

Init ==
  /\ landing \in LandingFiles
  /\ disk = NoDisk
  /\ pc = "start"
  /\ run = 1
  /\ seed = 0
  /\ raw_data = NoRawData
  /\ df_unified = << >>
  /\ quality_metrics = << >>
  /\ results = << >>
  /\ call = NoCall

(***************************************************************************)
(* main(): one action per step.                                            *)
(***************************************************************************)
\* process start (the interpreter draws its hash secret) and load_data()
LoadData ==
  /\ pc = "start"
  /\ \E s \in HashSeeds : seed' = s
  /\ raw_data' = load_data(landing)
  /\ pc' = "loaded"
  /\ UNCHANGED << landing, disk, run, df_unified, quality_metrics, results, call >>

\* main, lines 455-457: a source without rows ends the run
AbortOnEmpty ==
  /\ pc = "loaded"
  /\ Empty(raw_data.goodreads) \/ Empty(raw_data.googlebooks)
  /\ pc' = "aborted"
  /\ UNCHANGED << landing, disk, run, seed, raw_data, df_unified, quality_metrics, results, call >>

StandardizeAndMerge ==
  /\ pc = "loaded"
  /\ ~Empty(raw_data.goodreads) /\ ~Empty(raw_data.googlebooks)
  /\ ~NormalizeRaises(raw_data.goodreads, "goodreads")
  /\ ~NormalizeRaises(raw_data.googlebooks, "googlebooks")
  /\ LET df_gr_std == map_and_normalize(raw_data.goodreads, "goodreads", seed, run)
         df_gb_std == map_and_normalize(raw_data.googlebooks, "googlebooks", seed, run)
     IN  /\ df_unified' = concat(df_gr_std, df_gb_std)
         /\ quality_metrics' =
              [ goodreads |-> calculate_quality_metrics(df_gr_std, "goodreads", KEY_COLS, run),
                googlebooks |-> calculate_quality_metrics(df_gb_std, "googlebooks", KEY_COLS, run) ]
  /\ pc' = "merged"
  /\ UNCHANGED << landing, disk, run, seed, raw_data, results, call >>

\* an exception out of map_and_normalize ends the process
StandardizeRaises ==
  /\ pc = "loaded"
  /\ ~Empty(raw_data.goodreads) /\ ~Empty(raw_data.googlebooks)
  /\ \/ NormalizeRaises(raw_data.goodreads, "goodreads")
     \/ NormalizeRaises(raw_data.googlebooks, "googlebooks")
  /\ pc' = "crashed"
  /\ UNCHANGED << landing, disk, run, seed, raw_data, df_unified, quality_metrics, results, call >>

\* deduplicate_and_create_dims, both to_parquet calls succeeding
DeduplicateAndCreateDims ==
  /\ pc = "merged"
  /\ LET df == WithSortColumns(df_unified)
         df_winners == Winners(df, run)
         df_dim_book == DimBook(df_winners)
     IN  /\ df_unified' = df
         /\ disk' = [disk EXCEPT
                       !.book_source_detail =
                          to_parquet(disk.book_source_detail, SourceDetail(df, df_winners)),
                       !.dim_book = to_parquet(disk.dim_book, df_dim_book)]
         /\ results' = df_dim_book
  /\ pc' = "deduped"
  /\ UNCHANGED << landing, run, seed, raw_data, quality_metrics, call >>

\* the first to_parquet (line 323) raises: nothing is written
DetailWriteFails ==
  /\ pc = "merged"
  /\ df_unified' = WithSortColumns(df_unified)
  /\ pc' = "crashed"
  /\ UNCHANGED << landing, disk, run, seed, raw_data, quality_metrics, results, call >>

\* the second to_parquet (line 363) raises: the source detail is already written
DimBookWriteFails ==
  /\ pc = "merged"
  /\ LET df == WithSortColumns(df_unified)
     IN  /\ df_unified' = df
         /\ disk' = [disk EXCEPT
                       !.book_source_detail =
                          to_parquet(disk.book_source_detail,
                                     SourceDetail(df, Winners(df, run)))]
  /\ pc' = "crashed"
  /\ UNCHANGED << landing, run, seed, raw_data, quality_metrics, results, call >>

\* generate_docs, both files written
GenerateDocs ==
  /\ pc = "deduped"
  /\ disk' = [disk EXCEPT
                !.quality_metrics_json =
                   write_text(disk.quality_metrics_json,
                              << quality_metrics.goodreads, quality_metrics.googlebooks >>),
                !.schema_md = write_text(disk.schema_md, << SchemaOf(results, run) >>)]
  /\ pc' = "done"
  /\ UNCHANGED << landing, run, seed, raw_data, df_unified, quality_metrics, results, call >>

\* writing quality_metrics.json raises
MetricsWriteFails ==
  /\ pc = "deduped"
  /\ pc' = "crashed"
  /\ UNCHANGED << landing, disk, run, seed, raw_data, df_unified, quality_metrics, results, call >>

\* writing schema.md raises: quality_metrics.json is already written
SchemaWriteFails ==
  /\ pc = "deduped"
  /\ disk' = [disk EXCEPT
                !.quality_metrics_json =
                   write_text(disk.quality_metrics_json,
                              << quality_metrics.goodreads, quality_metrics.googlebooks >>)]
  /\ pc' = "crashed"
  /\ UNCHANGED << landing, run, seed, raw_data, df_unified, quality_metrics, results, call >>

Next ==
  \/ LoadData
  \/ AbortOnEmpty
  \/ StandardizeAndMerge
  \/ StandardizeRaises
  \/ DeduplicateAndCreateDims
  \/ DetailWriteFails
  \/ DimBookWriteFails
  \/ GenerateDocs
  \/ MetricsWriteFails
  \/ SchemaWriteFails

\* one run of the pipeline over every landing content within the bounds
Spec == Init /\ [][Next]_vars

(***************************************************************************)
(* Repeated runs: each run is a new process over the same landing files    *)
(* and the output files the earlier runs left.                             *)
(***************************************************************************)
MaxRuns == 2

RerunGrBooks ==
  { GrBook(Str(T_SAGA), Str(A_HERBERT), Str(ISBN_X_HYPHENS), PyNone),
    GrBook(Str(T_DUNE), Str(A_HERBERT_F), PyNone, Str(ISBN_Y10)) }

RerunGbLines ==
  { GbLine(T_DUNE, A_HERBERT, << "2", "0", "2", "1", "-", "0", "2" >>, << "f", "r" >>,
           << >>, << >>, << >>, << >>, << >>),
    GbLine(T_A, A_BC, << "1", "9", "9", "9" >>, << >>,
           << >>, << >>, << >>, << >>, << >>) }

RerunLandingFiles ==
  { f \in LandingFiles :
      /\ \A i \in 1..Len(f.goodreads.rows) : f.goodreads.rows[i] \in RerunGrBooks
      /\ \A i \in 1..Len(f.googlebooks.rows) : f.googlebooks.rows[i] \in RerunGbLines }

\* the script is started again (lines 472-477): a new process, the same disk
Rerun ==
  /\ pc \in {"done", "aborted", "crashed"}
  /\ run < MaxRuns
  /\ run' = run + 1
  /\ pc' = "start"
  /\ seed' = 0
  /\ raw_data' = NoRawData
  /\ df_unified' = << >>
  /\ quality_metrics' = << >>
  /\ results' = << >>
  /\ UNCHANGED << landing, disk, call >>

InitRerun ==
  /\ landing \in RerunLandingFiles
  /\ disk = NoDisk
  /\ pc = "start"
  /\ run = 1
  /\ seed = 0
  /\ raw_data = NoRawData
  /\ df_unified = << >>
  /\ quality_metrics = << >>
  /\ results = << >>
  /\ call = NoCall

NextRerun ==
  \/ LoadData
  \/ AbortOnEmpty
  \/ StandardizeAndMerge
  \/ StandardizeRaises
  \/ DeduplicateAndCreateDims
  \/ DetailWriteFails
  \/ DimBookWriteFails
  \/ GenerateDocs
  \/ MetricsWriteFails
  \/ SchemaWriteFails
  \/ Rerun

\* up to MaxRuns runs of the pipeline over unchanged landing files
SpecRerun == InitRerun /\ [][NextRerun]_vars

(***************************************************************************)
(* Repeated runs over landing files that the scraper and the enricher      *)
(* rewrite between the runs.                                               *)
(***************************************************************************)
\* the landing contents of these runs: at most one record per source and two
\* in all
ReplacedLandingFiles ==
  [ goodreads : { Readable(r) : r \in SeqsUpTo(RerunGrBooks, 1) } \cup {Unreadable},
    googlebooks : { Readable(r) : r \in SeqsUpTo(RerunGbLines, 1) } \cup {Unreadable} ]

\* scrape_goodreads / enrich_googlebooks are run again between two runs of the
\* pipeline and leave other landing files
LandingReplaced ==
  /\ pc \in {"done", "aborted", "crashed"}
  /\ run < MaxRuns
  /\ \E f \in ReplacedLandingFiles : f # landing /\ landing' = f
  /\ UNCHANGED << disk, pc, run, seed, raw_data, df_unified, quality_metrics, results, call >>

InitReplace ==
  /\ landing \in ReplacedLandingFiles
  /\ disk = NoDisk
  /\ pc = "start"
  /\ run = 1
  /\ seed = 0
  /\ raw_data = NoRawData
  /\ df_unified = << >>
  /\ quality_metrics = << >>
  /\ results = << >>
  /\ call = NoCall

NextReplace ==
  \/ LoadData
  \/ AbortOnEmpty
  \/ StandardizeAndMerge
  \/ StandardizeRaises
  \/ DeduplicateAndCreateDims
  \/ DetailWriteFails
  \/ DimBookWriteFails
  \/ GenerateDocs
  \/ MetricsWriteFails
  \/ SchemaWriteFails
  \/ Rerun
  \/ LandingReplaced

\* up to MaxRuns runs of the pipeline, the landing files changing in between
SpecReplace == InitReplace /\ [][NextReplace]_vars

(***************************************************************************)
(* Single calls of the field-level functions, over wider inputs than the   *)
(* landing files above hold.                                               *)
(***************************************************************************)
\* the most digits a raw ISBN value holds
MaxDigits == 14

DigitText(n) == [ i \in 1..n |-> Chars[Ord["0"] + ((i * 7) % 10)] ]

RECURSIVE Hyphenated(_)
Hyphenated(s) ==
  IF Len(s) <= 3 THEN s ELSE SubSeq(s, 1, 3) \o << "-" >> \o Hyphenated(SubSeq(s, 4, Len(s)))

IsbnTexts ==
  UNION { { DigitText(n),
            Hyphenated(DigitText(n)),
            << " " >> \o DigitText(n) \o << " ", " " >>,
            << "I", "S", "B", "N", " " >> \o DigitText(n),
            DigitText(n) \o << "X" >> } : n \in 0..MaxDigits }
  \cup { << "n", "a", "n" >>, << "N", "a", "N" >>, << "N", "o", "n", "e" >>,
         << "n", "u", "l", "l" >>, << "N", "U", "L", "L" >>,
         << " ", "M", "i", "s", "s", "i", "n", "g", " " >>,
         << "n", "o", "n", "e", "1" >>, << "n", "a" >>, ISBN_X_HYPHENS,
         << "1", "2", "3" >> }

\* what ingestion can hand to clean_isbn: a str, an int or float of a numeric
\* CSV column, None, NaN
IsbnInputs ==
  { Str(s) : s \in IsbnTexts }
  \cup { PyInt(DigitText(n)) : n \in 1..MaxDigits }
  \cup { PyFloat(DigitText(n) \o << ".", "0" >>) : n \in 1..MaxDigits }
  \cup { PyNone, PyNaN, PyInt(<< "0" >>) }

GrRowInputs ==
  [ title : { Str(T_DUNE), Str(T_DUNE_PAD), Str(<< >>), PyNone },
    author : { Str(A_HERBERT_F), Str(<< >>), PyNone },
    isbn13 : { PyNone, Str(ISBN_X_HYPHENS), Str(ISBN_Y10), Str(<< "n", "a", "n" >>),
               Str(<< "1", "2", "3" >>) },
    isbn10 : { PyNone, Str(ISBN_Y10), Str(ISBN_X), Str(<< "1", "2" >>) } ]

GbRowInputs ==
  [ title : { Str(<< "G", "B" >>) },
    authors : { Str(A_HERBERT_F), Str(A_BC), PyNaN },
    publisher : { PyNaN },
    pub_date : { PyInt(<< "2", "0", "2", "0" >>), PyNaN },
    language : { Str(<< "e", "n" >>), PyNaN },
    categories : { PyNaN },
    isbn13 : { PyNaN, PyInt(ISBN_X), PyFloat(ISBN_X \o << ".", "0" >>),
               Str(ISBN_X_HYPHENS), Str(ISBN_Y10), PyInt(ISBN_Z10) },
    isbn10 : { PyNaN, Str(ISBN_Y10), PyInt(ISBN_X) },
    price_amount : { PyFloat(<< "9", ".", "5" >>) },
    price_currency : { Str(<< "u", "s", "d" >>), PyNaN },
    goodreads_title : { Str(T_DUNE), Str(T_AB), PyNaN },
    goodreads_isbn10 : { PyNaN, Str(ISBN_Y10), Str(ISBN_X) },
    goodreads_isbn13 : { PyNaN, Str(ISBN_X_HYPHENS), Str(ISBN_Y10) } ]

\* what ingestion can hand to a field-level rule: a str, a number of a numeric
\* CSV column, None, NaN
FieldInputs ==
  { Str(s) : s \in { << >>, << " " >>, << "e", "n" >>, << " ", "E", "N", " " >>,
                     << "e", "n", "g" >>, << "s", "p", "a" >>, << "x", "x" >>,
                     << "n", "a", "n" >>, << "N", "o", "n", "e" >>,
                     << "U", "S", "D" >>, << "u", "s", "d" >>, << " ", "E", "U", "R", " " >>,
                     << "X", "X", "X" >>,
                     << "2", "0", "2", "0" >>, << "9", "9", "9", "9" >>,
                     << "2", "0", "2", "1", "-", "0", "2" >>,
                     << "2", "0", "2", "3", "-", "0", "5", "-", "0", "1" >>,
                     << "2", "0", "2", "3", "-", "1", "3", "-", "0", "1" >>,
                     << "x" >> } }
  \cup { PyInt(<< "2", "0", "2", "0" >>), PyInt(<< "0" >>), PyInt(<< "7" >>),
         PyFloat(<< "2", "0", "2", "0", ".", "0" >>), PyFloat(<< "9", ".", "5" >>),
         PyFloat(<< "0", ".", "0" >>), PyNone, PyNaN }

\* the frames calculate_quality_metrics is given: normalized records of one
\* source, none included
MetricsInputs ==
  { map_and_normalize(json_normalize(r), "goodreads", 0, 1) : r \in SeqsUpTo(RerunGrBooks, 2) }

UnitCalls ==
  { [fn |-> "clean_isbn", arg |-> v, ret |-> PyNone, done |-> FALSE] : v \in IsbnInputs }
  \cup { [fn |-> f, arg |-> v, ret |-> PyNone, done |-> FALSE] :
           f \in {"normalize_date", "normalize_language", "check_currency"},
           v \in FieldInputs }
  \cup { [fn |-> "calculate_quality_metrics", arg |-> df, ret |-> PyNone, done |-> FALSE] :
           df \in MetricsInputs }
  \cup { [fn |-> "map_and_normalize",
          arg |-> [source |-> "goodreads", row |-> r, seed |-> s],
          ret |-> PyNone, done |-> FALSE] : r \in GrRowInputs, s \in HashSeeds }
  \cup { [fn |-> "map_and_normalize",
          arg |-> [source |-> "googlebooks", row |-> r, seed |-> s],
          ret |-> PyNone, done |-> FALSE] : r \in GbRowInputs, s \in HashSeeds }

InitUnit ==
  /\ landing = [goodreads |-> Unreadable, googlebooks |-> Unreadable]
  /\ disk = NoDisk
  /\ pc = "unit"
  /\ run = 1
  /\ seed = 0
  /\ raw_data = NoRawData
  /\ df_unified = << >>
  /\ quality_metrics = << >>
  /\ results = << >>
  /\ call \in UnitCalls

CallCleanIsbn ==
  /\ pc = "unit"
  /\ call.fn = "clean_isbn" /\ ~call.done
  /\ call' = [call EXCEPT !.ret = clean_isbn(call.arg), !.done = TRUE]
  /\ UNCHANGED << landing, disk, pc, run, seed, raw_data, df_unified, quality_metrics, results >>

\* map_and_normalize on a frame of the one row call.arg.row
CallMapAndNormalize ==
  /\ pc = "unit"
  /\ call.fn = "map_and_normalize" /\ ~call.done
  /\ call' = [call EXCEPT
                !.ret = IF NormalizeRaises(<< call.arg.row >>, call.arg.source)
                        THEN Raised
                        ELSE map_and_normalize(<< call.arg.row >>, call.arg.source,
                                               call.arg.seed, run)[1],
                !.done = TRUE]
  /\ UNCHANGED << landing, disk, pc, run, seed, raw_data, df_unified, quality_metrics, results >>

CallNormalizeDate ==
  /\ pc = "unit"
  /\ call.fn = "normalize_date" /\ ~call.done
  /\ call' = [call EXCEPT !.ret = normalize_date(call.arg), !.done = TRUE]
  /\ UNCHANGED << landing, disk, pc, run, seed, raw_data, df_unified, quality_metrics, results >>

CallNormalizeLanguage ==
  /\ pc = "unit"
  /\ call.fn = "normalize_language" /\ ~call.done
  /\ call' = [call EXCEPT !.ret = normalize_language(call.arg), !.done = TRUE]
  /\ UNCHANGED << landing, disk, pc, run, seed, raw_data, df_unified, quality_metrics, results >>

CallCheckCurrency ==
  /\ pc = "unit"
  /\ call.fn = "check_currency" /\ ~call.done
  /\ call' = [call EXCEPT !.ret = PyBool(check_currency(call.arg)), !.done = TRUE]
  /\ UNCHANGED << landing, disk, pc, run, seed, raw_data, df_unified, quality_metrics, results >>

CallQualityMetrics ==
  /\ pc = "unit"
  /\ call.fn = "calculate_quality_metrics" /\ ~call.done
  /\ call' = [call EXCEPT
                !.ret = calculate_quality_metrics(call.arg, "goodreads", KEY_COLS, run),
                !.done = TRUE]
  /\ UNCHANGED << landing, disk, pc, run, seed, raw_data, df_unified, quality_metrics, results >>

NextUnit ==
  \/ CallCleanIsbn
  \/ CallNormalizeDate
  \/ CallNormalizeLanguage
  \/ CallCheckCurrency
  \/ CallMapAndNormalize
  \/ CallQualityMetrics

SpecUnit == InitUnit /\ [][NextUnit]_vars

(***************************************************************************)
(* Properties.                                                             *)
(***************************************************************************)
\* the positions of the decimal digits of s
DigitPositions(s) == { i \in 1..Len(s) : s[i] \in Digits }

\* the k-th smallest element of a set of numbers
Nth(S, k) == CHOOSE p \in S : Cardinality({ q \in S : q <= p }) = k

\* s is a string of exactly n decimal digits
IsDigitsOfLength(v, n) ==
  v.t = "str" /\ Len(v.s) = n /\ \A i \in 1..Len(v.s) : v.s[i] \in Digits

\* a finished map_and_normalize call that returned a row
NormalizedCall ==
  call.fn = "map_and_normalize" /\ call.done /\ "book_id" \in DOMAIN call.ret

\* C10: clean_isbn returns absent when the stripped text of its input is empty
\* or is, ignoring case, one of none / null / nan / missing; otherwise it
\* returns the digits of that text, in order, if and only if there are exactly
\* 10 or exactly 13 of them, and absent for any other count.
C10_CleanIsbnContract ==
  (call.fn = "clean_isbn" /\ call.done) =>
    LET s == Strip(PyStr(call.arg))
        pos == DigitPositions(s)
        n == Cardinality(pos)
        nullish == \/ s = << >>
                   \/ Lower(s) \in { << "n", "o", "n", "e" >>, << "n", "u", "l", "l" >>,
                                     << "n", "a", "n" >>,
                                     << "m", "i", "s", "s", "i", "n", "g" >> }
    IN  IF nullish \/ n \notin {10, 13}
        THEN call.ret = PyNone
        ELSE call.ret = Str([ k \in 1..n |-> s[Nth(pos, k)] ])

\* a hyphenated 13-digit ISBN has been cleaned to its 13 digits
C10_Witness ==
  /\ call.fn = "clean_isbn" /\ call.done
  /\ call.arg = Str(ISBN_X_HYPHENS)
  /\ call.ret = Str(ISBN_X)

\* C9: in every normalized record isbn13_clean is absent or a string of exactly
\* 13 digits, and isbn10_clean is absent or a string of exactly 10 digits,
\* whatever the raw isbn13 / isbn10 / goodreads_isbn13 / goodreads_isbn10 hold.
C9_CleanIsbnColumnsHaveTheirLength ==
  NormalizedCall =>
    /\ IsNA(call.ret.isbn13_clean) \/ IsDigitsOfLength(call.ret.isbn13_clean, 13)
    /\ IsNA(call.ret.isbn10_clean) \/ IsDigitsOfLength(call.ret.isbn10_clean, 10)

\* C8: after map_and_normalize every record has a book_id that is not absent:
\* the record's clean ISBN-13 when that is 13 digits, and otherwise the text of
\* the hash of its fallback key.
C8_BookIdAlwaysPopulated ==
  NormalizedCall =>
    LET r == call.ret
    IN  /\ ~IsNA(r.book_id)
        /\ r.book_id.t = "str" /\ r.book_id.s # << >>
        /\ IF IsDigitsOfLength(r.isbn13_clean, 13)
           THEN r.book_id = r.isbn13_clean
           ELSE r.book_id.s = IntToStr(PyHash(r.fallback_key.s, call.arg.seed))

\* a record with no ISBN, no title and no author has been normalized
C8_Witness ==
  /\ NormalizedCall
  /\ call.arg.source = "goodreads"
  /\ call.arg.row = GrBook(PyNone, PyNone, PyNone, PyNone)
  /\ ~IsNA(call.ret.book_id)

\* the rows of the output tables on disk
Detail == disk.book_source_detail.rows

Dim == disk.dim_book.rows

BookIds(rows) == { rows[i].book_id : i \in 1..Len(rows) }

\* the indices of the rows of a table that carry book_id b
Group(rows, b) == { i \in 1..Len(rows) : rows[i].book_id = b }

\* the i-th input record of the run: the Goodreads records, then the Google
\* Books records
InputRecord(i) ==
  IF i <= Len(raw_data.goodreads)
  THEN LET r == raw_data.goodreads[i]
       IN  [ source |-> "goodreads", title |-> r.title,
             isbn13 |-> r.isbn13, isbn10 |-> r.isbn10,
             date |-> PyNone, language |-> PyNone, amount |-> PyNone ]
  ELSE LET r == raw_data.googlebooks[i - Len(raw_data.goodreads)]
       IN  [ source |-> "googlebooks", title |-> r.goodreads_title,
             isbn13 |-> r.isbn13, isbn10 |-> r.isbn10,
             date |-> r.pub_date, language |-> r.language, amount |-> r.price_amount ]

\* what a row of a table kept of the input record it was made from
InputOfRow(row) ==
  [ source |-> row.source_name, title |-> row.title_raw,
    isbn13 |-> row.isbn13, isbn10 |-> row.isbn10,
    date |-> row.publishedDate_raw, language |-> row.language_raw,
    amount |-> row.price_amount ]

\* C2: in the source-detail table the number of rows flagged is_winner equals
\* the number of distinct book_id values: one flagged record per group.
C2_OneWinnerFlagPerGroup ==
  disk.book_source_detail.exists =>
    /\ Cardinality({ i \in 1..Len(Detail) : Detail[i].is_winner })
         = Cardinality(BookIds(Detail))
    /\ \A b \in BookIds(Detail) :
         Cardinality({ i \in Group(Detail, b) : Detail[i].is_winner }) = 1

\* C3: the source-detail table has exactly as many rows as the run had input
\* records (Goodreads plus Google Books), and its i-th row is the i-th input
\* record: every record appears exactly once, winner or not.
C3_EveryRecordKeptOnce ==
  disk.book_source_detail.exists =>
    /\ Len(Detail) = Len(raw_data.goodreads) + Len(raw_data.googlebooks)
    /\ \A i \in 1..Len(Detail) : InputOfRow(Detail[i]) = InputRecord(i)

\* a source detail was written for a run in which some record lost its group
C3_Witness ==
  /\ disk.book_source_detail.exists
  /\ Len(Detail) = 3
  /\ Cardinality(BookIds(Detail)) < Len(Detail)

\* C4: the canonical table has exactly one row per distinct book_id of the
\* unified records, and each row is the projection of a record of that group,
\* tagged with that record's source; so a group of one record yields that
\* record, whatever its source, title length or date.
C4_OneCanonicalRowPerBookId ==
  disk.dim_book.exists =>
    /\ Len(Dim) = Cardinality(BookIds(df_unified))
    /\ BookIds(Dim) = BookIds(df_unified)
    /\ \A k \in 1..Len(Dim) :
         \E i \in Group(df_unified, Dim[k].book_id) :
           /\ Dim[k].fuente_ganadora = df_unified[i].source_name
           /\ Dim[k].title = df_unified[i].title_raw
           /\ Dim[k].authors = df_unified[i].authors_raw
           /\ Dim[k].isbn13 = df_unified[i].isbn13_clean
           /\ Dim[k].fecha_publicacion = df_unified[i].fecha_publicacion

\* the canonical table was written for a run with a group of one Goodreads
\* record and a group of several records
C4_Witness ==
  /\ disk.dim_book.exists
  /\ \E b \in BookIds(df_unified) :
       /\ Cardinality(Group(df_unified, b)) = 1
       /\ \A i \in Group(df_unified, b) : df_unified[i].source_name = "goodreads"
  /\ \E b \in BookIds(df_unified) : Cardinality(Group(df_unified, b)) > 1

\* C5: in a group that holds a googlebooks record and a goodreads record the
\* winner is a googlebooks record, whatever the title lengths and dates.
C5_GoogleBooksOutranksGoodreads ==
  disk.dim_book.exists =>
    \A b \in BookIds(df_unified) :
      ( /\ \E i \in Group(df_unified, b) : df_unified[i].source_name = "googlebooks"
        /\ \E i \in Group(df_unified, b) : df_unified[i].source_name = "goodreads" )
      => \A k \in Group(Dim, b) :
           /\ Dim[k].fuente_ganadora = "googlebooks"
           /\ \E i \in Group(df_unified, b) :
                /\ df_unified[i].source_name = "googlebooks"
                /\ df_unified[i].title_raw = Dim[k].title

\* a winner was chosen in a group whose goodreads record has a longer title
\* than each of its googlebooks records
C5_Witness ==
  /\ disk.dim_book.exists
  /\ \E b \in BookIds(df_unified) :
       \E i \in Group(df_unified, b) :
         /\ df_unified[i].source_name = "goodreads"
         /\ \E j \in Group(df_unified, b) : df_unified[j].source_name = "googlebooks"
         /\ \A j \in Group(df_unified, b) :
              df_unified[j].source_name = "googlebooks"
                => Len(PyStr(df_unified[j].title_raw)) < Len(PyStr(df_unified[i].title_raw))

\* the first comma-delimited token of a record's authors_raw
FirstAuthor(row) == FirstToken(row.authors_raw.s, ",")

HasIsbn13(row) == IsDigitsOfLength(row.isbn13_clean, 13)

\* C6: two normalized records whose cleaned ISBN-13 is the same 13-digit string
\* have the same book_id, that ISBN-13, and so fall into one survivorship
\* group (one canonical row), even when their titles and authors differ.
C6_SameIsbn13SameBookId ==
  \A i, j \in 1..Len(df_unified) :
    (HasIsbn13(df_unified[i]) /\ df_unified[i].isbn13_clean = df_unified[j].isbn13_clean)
      => /\ df_unified[i].book_id = df_unified[i].isbn13_clean
         /\ df_unified[j].book_id = df_unified[i].book_id
         /\ disk.dim_book.exists => Cardinality(Group(Dim, df_unified[i].book_id)) = 1

\* records of the two sources with one ISBN-13 and different titles and
\* authors have been grouped
C6_Witness ==
  /\ disk.dim_book.exists
  /\ \E i, j \in 1..Len(df_unified) :
       /\ HasIsbn13(df_unified[i])
       /\ df_unified[i].isbn13_clean = df_unified[j].isbn13_clean
       /\ df_unified[i].source_name # df_unified[j].source_name
       /\ df_unified[i].title_normalized # df_unified[j].title_normalized
       /\ df_unified[i].authors_raw # df_unified[j].authors_raw
       /\ FirstAuthor(df_unified[i]) # FirstAuthor(df_unified[j])

\* C7: two records without a valid ISBN-13 get the same book_id when they share
\* the normalized title and the first author token, and different book_ids
\* when they differ in the normalized title or in the first author token.
C7_FallbackIdentityTellsRecordsApart ==
  \A i, j \in 1..Len(df_unified) :
    (~HasIsbn13(df_unified[i]) /\ ~HasIsbn13(df_unified[j]))
      => LET same == /\ df_unified[i].title_normalized = df_unified[j].title_normalized
                     /\ FirstAuthor(df_unified[i]) = FirstAuthor(df_unified[j])
         IN  same <=> (df_unified[i].book_id = df_unified[j].book_id)

\* the winners of a table, as the set of what identifies them
WinnerSet(rows) ==
  { [ book_id |-> rows[k].book_id, source |-> rows[k].fuente_ganadora,
      title |-> rows[k].title, isbn13 |-> rows[k].isbn13 ] : k \in 1..Len(rows) }

\* C1: a later run over the same input records gives every record the book_id
\* the earlier run gave it, and selects the same winners; the earlier run's
\* tables are still on disk when the later run has normalized its records.
C1_RunsAgreeOnIdentityAndWinners ==
  ( /\ run > 1 /\ pc = "merged"
    /\ disk.book_source_detail.exists /\ disk.dim_book.exists )
  => /\ Len(Detail) = Len(df_unified)
     /\ \A i \in 1..Len(df_unified) : Detail[i].book_id = df_unified[i].book_id
     /\ WinnerSet(Dim) = WinnerSet(DimBook(Winners(WithSortColumns(df_unified), run)))

\* C11: calculate_quality_metrics applied to an empty record set completes
\* without an arithmetic error and reports 0 for every percentage field: the
\* completeness of every key column, the valid-language percentage and the
\* valid-currency percentage.
C11_ZeroRowGuard ==
  (call.fn = "calculate_quality_metrics" /\ call.done /\ Len(call.arg) = 0) =>
    /\ call.ret # Raised
    /\ \A col \in KEY_COLS : call.ret.completeness_pct[col] = ZeroPct
    /\ call.ret.pct_valid_languages_bcp47 = ZeroPct
    /\ call.ret.pct_valid_currencies_iso4217 = ZeroPct

\* the raw price_currency of the i-th input record of the run
RawCurrency(i) ==
  IF i <= Len(raw_data.goodreads) THEN PyNone
  ELSE raw_data.googlebooks[i - Len(raw_data.goodreads)].price_currency

\* a currency value that is, trimmed and upper-cased, a recognized code
IsRecognizedCurrency(v) ==
  /\ v.t = "str"
  /\ Upper(Strip(v.s)) \in { << "U", "S", "D" >>, << "E", "U", "R" >>, << "G", "B", "P" >>,
                             << "C", "A", "D" >>, << "J", "P", "Y" >>, << "A", "U", "D" >> }

\* C12: for every record the normalized price (precio) equals the raw
\* price_amount unchanged, whether the currency is valid, invalid or absent; an
\* invalid or absent currency only makes the normalized currency absent.
C12_PriceKeptWhateverTheCurrency ==
  \A i \in 1..Len(df_unified) :
    /\ df_unified[i].precio = InputRecord(i).amount
    /\ df_unified[i].price_amount = InputRecord(i).amount
    /\ ~IsRecognizedCurrency(RawCurrency(i)) => IsNA(df_unified[i].moneda_iso)
    /\ disk.book_source_detail.exists => Detail[i].precio = InputRecord(i).amount

\* records with a price were normalized, one with an unrecognized currency
\* code and one with no currency at all
C12_Witness ==
  /\ pc = "merged"
  /\ \E i \in 1..Len(df_unified) :
       /\ ~IsNA(df_unified[i].precio)
       /\ RawCurrency(i) = Str(<< "X", "X", "X" >>)
       /\ IsNA(df_unified[i].moneda_iso)
  /\ \E i \in 1..Len(df_unified) :
       /\ ~IsNA(df_unified[i].precio)
       /\ IsNA(RawCurrency(i))

\* a landing file that is unreadable or malformed, or holds no record
SourceUnusable(f) == ~f.readable \/ Len(f.rows) = 0

\* C13: if either source is unreadable, malformed or yields zero rows, the run
\* stops before normalization and writes none of the output artifacts (source
\* detail, canonical table, quality metrics, schema document).
C13_EmptyInputAborts ==
  (SourceUnusable(landing.goodreads) \/ SourceUnusable(landing.googlebooks)) =>
    /\ pc \in {"start", "loaded", "aborted"}
    /\ df_unified = << >>
    /\ quality_metrics = << >>
    /\ disk = NoDisk

\* a run was aborted with one source unreadable and the other holding records
C13_Witness ==
  /\ pc = "aborted"
  /\ ~landing.goodreads.readable
  /\ Len(landing.googlebooks.rows) > 0
  /\ disk = NoDisk

\* C14: for every raw value ingestion can deliver (a string, a number, a float
\* NaN, None) each of clean_isbn, normalize_date, normalize_language and
\* check_currency returns without raising, and so does map_and_normalize.
C14_FieldRulesNeverRaise ==
  ( /\ call.done
    /\ call.fn \in { "clean_isbn", "normalize_date", "normalize_language",
                      "check_currency", "map_and_normalize" } )
    => call.ret # Raised

\* C15: at the end of any run, a run in which writing one artifact fails
\* included, either the source-detail table, the canonical table and the
\* quality-metrics document have all been written or none of them has.
C15_EmissionAllOrNone ==
  pc \in {"done", "aborted", "crashed"} =>
    \/ /\ disk.book_source_detail.exists
       /\ disk.dim_book.exists
       /\ disk.quality_metrics_json.exists
    \/ /\ ~disk.book_source_detail.exists
       /\ ~disk.dim_book.exists
       /\ ~disk.quality_metrics_json.exists

\* the length of a raw title, an absent title being the shortest there is
TitleLen(v) == IF IsNA(v) THEN 0 ELSE Len(v.s)

\* C16: within a book_id group, among the records of the best source rank of
\* the group (the winner's source), the winner has the maximum raw-title
\* length, an absent title counting as the shortest possible title.
C16_LongestTitleWins ==
  disk.dim_book.exists =>
    \A k \in 1..Len(Dim) :
      \A i \in Group(df_unified, Dim[k].book_id) :
        df_unified[i].source_name = Dim[k].fuente_ganadora
          => TitleLen(Dim[k].title) >= TitleLen(df_unified[i].title_raw)

\* the text a normalized date is compared by, absent dates included
DateKey(v) == IF IsNA(v) THEN << "0", "0", "0", "0", "-", "0", "0", "-", "0", "0" >> ELSE v.s

\* two raw titles of one length: both absent, or both present and as long
TitleTie(a, b) ==
  \/ IsNA(a) /\ IsNA(b)
  \/ ~IsNA(a) /\ ~IsNA(b) /\ Len(a.s) = Len(b.s)

\* C17: within a book_id group, among the records tied with the winner on
\* source rank and raw-title length, the winner has the lexicographically
\* greatest normalized publication date, an absent date comparing as
\* "0000-00-00" and so losing to every present date.
C17_LatestDateWins ==
  disk.dim_book.exists =>
    \A k \in 1..Len(Dim) :
      \A i \in Group(df_unified, Dim[k].book_id) :
        ( /\ df_unified[i].source_name = Dim[k].fuente_ganadora
          /\ TitleTie(df_unified[i].title_raw, Dim[k].title) )
        => /\ ~StrLess(DateKey(Dim[k].fecha_publicacion),
                       DateKey(df_unified[i].fecha_publicacion))
           /\ ~IsNA(df_unified[i].fecha_publicacion) => ~IsNA(Dim[k].fecha_publicacion)

\* a winner was chosen between two records of one source and one title length,
\* the earlier one in the input without a date, the later one with a date
C17_Witness ==
  /\ disk.dim_book.exists
  /\ \E i, j \in 1..Len(df_unified) :
       /\ i < j
       /\ df_unified[i].book_id = df_unified[j].book_id
       /\ df_unified[i].source_name = df_unified[j].source_name
       /\ ~IsNA(df_unified[i].title_raw)
       /\ TitleTie(df_unified[i].title_raw, df_unified[j].title_raw)
       /\ IsNA(df_unified[i].fecha_publicacion)
       /\ ~IsNA(df_unified[j].fecha_publicacion)
       /\ \E k \in Group(Dim, df_unified[j].book_id) :
            /\ Dim[k].fecha_publicacion = df_unified[j].fecha_publicacion
            /\ Dim[k].authors = df_unified[j].authors_raw

\* the raw title and authors of the record a call normalized
RawTitleOfCall ==
  IF call.arg.source = "goodreads" THEN call.arg.row.title ELSE call.arg.row.goodreads_title

RawAuthorsOfCall ==
  IF call.arg.source = "goodreads" THEN call.arg.row.author ELSE call.arg.row.authors

\* C18: for a record without a valid ISBN-13 the fallback key is the
\* normalized title, the separator and the first comma-delimited token of the
\* authors; an absent title gives the part __MISSING_TITLE__ and absent authors
\* the part __MISSING_AUTHOR__, never the text of the missing value.
C18_FallbackKeySentinels ==
  (NormalizedCall /\ ~IsDigitsOfLength(call.ret.isbn13_clean, 13)) =>
    LET titlePart == IF IsNA(RawTitleOfCall) THEN MISSING_TITLE
                     ELSE Lower(Strip(PyStr(RawTitleOfCall)))
        authorPart == IF IsNA(RawAuthorsOfCall) THEN MISSING_AUTHOR
                      ELSE FirstToken(Strip(PyStr(RawAuthorsOfCall)), ",")
    IN  call.ret.fallback_key.s = titlePart \o << "|" >> \o authorPart

\* C19: in every normalized record moneda_iso is absent or exactly one of USD,
\* EUR, GBP, CAD, JPY, AUD; a raw currency accepted only after trimming or
\* upper-casing is stored in its trimmed, upper-cased form.
C19_CurrencyIsRecognizedCode ==
  NormalizedCall =>
    \/ IsNA(call.ret.moneda_iso)
    \/ /\ call.ret.moneda_iso.t = "str"
       /\ call.ret.moneda_iso.s \in
            { << "U", "S", "D" >>, << "E", "U", "R" >>, << "G", "B", "P" >>,
              << "C", "A", "D" >>, << "J", "P", "Y" >>, << "A", "U", "D" >> }

\* the unified normalized records the survivorship step of the run was given
UnifiedOfRun ==
  concat(map_and_normalize(raw_data.goodreads, "goodreads", seed, run),
         map_and_normalize(raw_data.googlebooks, "googlebooks", seed, run))

\* C20: the source-detail table has exactly the fields of the normalized
\* records plus is_winner (no source_rank, title_length or fecha_sort), and
\* the normalized field values are those of the unified records.
C20_DetailIsNormalizedPlusFlag ==
  disk.book_source_detail.exists =>
    LET unified == UnifiedOfRun
    IN  /\ Len(Detail) = Len(unified)
        /\ \A i \in 1..Len(Detail) :
             /\ DOMAIN Detail[i] = (DOMAIN unified[i]) \cup {"is_winner"}
             /\ \A f \in DOMAIN unified[i] : Detail[i][f] = unified[i][f]

\* C21: after a successful run the canonical table, the source-detail table and
\* the metrics document hold exactly the rows computed from the input of that
\* run, whatever earlier runs wrote: nothing of an earlier run is kept,
\* appended or merged.  The two tables are already so once the run has
\* written them.
C21_RerunReplacesOutputs ==
  pc \in {"deduped", "done"} =>
    LET df == WithSortColumns(UnifiedOfRun)
        df_winners == Winners(df, run)
    IN  /\ disk.book_source_detail = File(SourceDetail(df, df_winners))
        /\ disk.dim_book = File(DimBook(df_winners))
        /\ \A i \in 1..Len(Detail) : Detail[i].timestamp_ingesta = run
        /\ \A k \in 1..Len(Dim) : Dim[k].ts_ultima_actualizacion = run
        /\ pc = "done" =>
             /\ disk.quality_metrics_json.exists
             /\ Len(disk.quality_metrics_json.rows) = 2
             /\ \A m \in 1..2 : disk.quality_metrics_json.rows[m].timestamp = run
             /\ disk.quality_metrics_json.rows[1].total_rows = Len(raw_data.goodreads)
             /\ disk.quality_metrics_json.rows[2].total_rows = Len(raw_data.googlebooks)
             /\ disk.schema_md = File(<< SchemaOf(DimBook(df_winners), run) >>)

\* a later run has written its tables over those of an earlier successful run
\* (whose metrics and schema documents are still on disk) that had another
\* input
C21_Witness ==
  /\ run > 1 /\ pc = "deduped"
  /\ disk.schema_md.exists /\ disk.quality_metrics_json.exists
  /\ \A m \in 1..Len(disk.quality_metrics_json.rows) :
       disk.quality_metrics_json.rows[m].timestamp < run
  /\ disk.schema_md.rows[1] # SchemaOf(Dim, disk.schema_md.rows[1].generated)
  /\ \A k \in 1..Len(Dim) : Dim[k].ts_ultima_actualizacion = run

====
